---- MODULE Spec2Model ----
(***************************************************************************)
(* The two search pages of the ILS front-end, DocumentsSearch and          *)
(* EItemsSearch, as a state machine.                                       *)
(*                                                                         *)
(* A page is a React class component.  Its own state (this.state) changes  *)
(* only through setState, which React documents as asynchronous: a call    *)
(* enqueues a partial state object, and the queue is merged into           *)
(* this.state, followed by a re-render, when React flushes it.  The model  *)
(* keeps the queue (pending) and the flush (Flush) apart from the handlers *)
(* that enqueue, so that a handler can run while an earlier update is      *)
(* still pending.  What the page shows is a function of this.state and of  *)
(* the search client's state: it is the operator View, not a variable.     *)
(*                                                                         *)
(* The search client (react-searchkit) and the router are collaborators:   *)
(* the client's state is the variable search, and the calls a handler      *)
(* issues to a collaborator are recorded in calls.                         *)
(***************************************************************************)
EXTENDS Integers, Sequences, FiniteSets

\* ---------------------------------------------------------------- bounds

\* Number of aggregations the search configuration of documents lists.
NumAggs == 2

\* Most setState updates that may be pending before React flushes them.
MaxPending == 2

\* The pids the backend may return, the query strings a user may type and
\* the errors the search client may report.
Pids == {"p1", "p2"}
Queries == {"", "q"}
Errors == {"e1", "e2"}
NoError == "none"

Pages == {"DocumentsSearch", "EItemsSearch"}

VARIABLES
    page,       \* which of the two page components is mounted
    state,      \* the component's this.state
    pending,    \* setState updates enqueued and not yet applied
    search,     \* the search client's state, consumed through render props
    calls,      \* the collaborator calls issued by the last handler
    firstTwo    \* the first two distinct values this.state has taken

vars == <<page, state, pending, search, calls, firstTwo>>

\* ------------------------------------------------------------- data

AggIndices == 0 .. (NumAggs - 1)

Null == [type |-> "null"]

Hit(p) == [metadata |-> [pid |-> p]]

RECURSIVE SeqsOver(_)
\* All sequences without repetition over the set S: the hits of one
\* response, each record appearing once.
SeqsOver(S) ==
    IF S = {} THEN {<<>>}
    ELSE {<<>>} \cup
         UNION {{<<x>> \o t : t \in SeqsOver(S \ {x})} : x \in S}

ResultSeqs == {[i \in 1 .. Len(ps) |-> Hit(ps[i])] : ps \in SeqsOver(Pids)}

Call(fn, arg) == [fn |-> fn, arg |-> arg]

\* The route builders and the router.
documentDetailsFor(pid) == <<"/documents", pid>>
eitemDetailsFor(id) == <<"/backoffice/eitems", id>>
goTo(path) == Call("goTo", path)
resetQuery == Call("resetQuery", <<>>)
executeSearch(q) == Call("executeSearch", <<q>>)
openRecordEditor(url) == Call("openRecordEditor", <<url>>)
eitemApiUrl == "eitemApi.url"

\* ------------------------------------------------- component state

NoState == [type |-> "no state"]

DocumentsSearch_state == [activeIndex |-> 0, isLayoutGrid |-> TRUE]

InitialState(pg) ==
    IF pg = "DocumentsSearch" THEN DocumentsSearch_state ELSE NoState

\* setState merges a partial state object into this.state.
MergeState(s, u) ==
    [activeIndex |-> IF "activeIndex" \in DOMAIN u
                     THEN u.activeIndex ELSE s.activeIndex,
     isLayoutGrid |-> IF "isLayoutGrid" \in DOMAIN u
                      THEN u.isLayoutGrid ELSE s.isLayoutGrid]

RECURSIVE ProcessUpdateQueue(_, _)
ProcessUpdateQueue(s, q) ==
    IF q = <<>> THEN s
    ELSE ProcessUpdateQueue(MergeState(s, Head(q)), Tail(q))

\* Mutant of toggleAccordion: takes the title's index for a 1-based one.
toggleAccordion_offByOne(s, titleProps) ==
    LET index == titleProps.index + 1
        activeIndex == s.activeIndex
        newIndex == IF activeIndex = index THEN -1 ELSE index
    IN  [activeIndex |-> newIndex]

\* toggleAccordion = (e, titleProps) => ...: the update it hands to setState.
toggleAccordion(s, titleProps) ==
    LET index == titleProps.index
        activeIndex == s.activeIndex
        newIndex == IF activeIndex = index THEN -1 ELSE index
    IN  [activeIndex |-> newIndex]

\* Mutant of toggleLayout: asks for the list layout whatever the current one.
toggleLayout_setsList(s) == [isLayoutGrid |-> FALSE]

\* Mutant of toggleLayout: hands setState the whole state, accordion reset.
toggleLayout_resetsAccordion(s) ==
    [activeIndex |-> 0, isLayoutGrid |-> ~s.isLayoutGrid]

\* toggleLayout = () => ...: the update it hands to setState.
toggleLayout(s) == [isLayoutGrid |-> ~s.isLayoutGrid]

\* ------------------------------------------- the search toolkit's parts

Undefined == "undefined"

\* What the toolkit hands to an aggregation's renderElement.
ResultsAggregations(srch) == IF srch.aggregations THEN "buckets" ELSE Undefined

\* <ResultsLoader>: the loader while a request is in flight, else its children.
ResultsLoader(srch, children) ==
    IF srch.loading THEN [type |-> "Loader"] ELSE children

\* <EmptyResults renderElement=...>: calls renderElement with the query
\* string and resetQuery when a response without hits and without error is in.
EmptyResultsShown(srch) ==
    ~srch.loading /\ srch.error = NoError /\ srch.results = <<>>

\* <Error renderElement=...>: calls renderElement with the error when one is in.
ErrorShown(srch) == ~srch.loading /\ srch.error # NoError

\* <ResultsList>, <ResultsGrid>: call renderElement with the hits when there
\* are some.
ResultsShown(srch) == ~srch.loading /\ srch.results # <<>>

\* The rows the eitems table shows: one per hit, with ID the hit's pid.
EItemsResultsList(results, viewDetailsClickHandler) ==
    [type |-> "EItemsResultsList",
     rows |-> [i \in 1 .. Len(results) |-> [ID |-> results[i].metadata.pid]],
     viewDetailsClickHandler |-> viewDetailsClickHandler]

\* --------------------------------------------- DocumentsSearch, rendering

\* searchConfig.AGGREGATIONS of documents; JavaScript's idx is i - 1.
AGGREGATIONS == [i \in 1 .. NumAggs |-> [title |-> i, field |-> i]]

\* Mutant of renderAccordionAggregations: the content is active whenever any
\* index is.
DocumentsSearch_renderAccordionAggregations_anyActive(s, title, resultsAggregations, aggregations, customProps) ==
    LET activeIndex == s.activeIndex
    IN  IF resultsAggregations # Undefined
        THEN [type |-> "Accordion",
              title |-> [content |-> title,
                         index |-> customProps.index,
                         active |-> (activeIndex = customProps.index),
                         onClick |-> "toggleAccordion"],
              content |-> [active |-> (activeIndex # -1),
                           content |-> aggregations]]
        ELSE Null

DocumentsSearch_renderAccordionAggregations(s, title, resultsAggregations, aggregations, customProps) ==
    LET activeIndex == s.activeIndex
    IN  IF resultsAggregations # Undefined
        THEN [type |-> "Accordion",
              title |-> [content |-> title,
                         index |-> customProps.index,
                         active |-> (activeIndex = customProps.index),
                         onClick |-> "toggleAccordion"],
              content |-> [active |-> (activeIndex = customProps.index),
                           content |-> aggregations]]
        ELSE Null

DocumentsSearch_renderSearchBar(queryString) ==
    [type |-> "DocumentsSearchBar",
     currentQueryString |-> queryString,
     onInputChange |-> "onInputChange",
     executeSearch |-> "executeSearch",
     placeholder |-> "Search for records..."]

\* Mutant of renderResultsLayoutOptions: the two disabled flags exchanged.
DocumentsSearch_renderResultsLayoutOptions_swapped(s) ==
    <<[type |-> "Button", icon |-> "grid layout",
       disabled |-> ~s.isLayoutGrid, onClick |-> "toggleLayout"],
      [type |-> "Button", icon |-> "list layout",
       disabled |-> s.isLayoutGrid, onClick |-> "toggleLayout"]>>

DocumentsSearch_renderResultsLayoutOptions(s) ==
    <<[type |-> "Button", icon |-> "grid layout",
       disabled |-> s.isLayoutGrid, onClick |-> "toggleLayout"],
      [type |-> "Button", icon |-> "list layout",
       disabled |-> ~s.isLayoutGrid, onClick |-> "toggleLayout"]>>

DocumentsSearch_renderResultsGrid(results) ==
    LET cards == [i \in 1 .. Len(results) |->
                    [type |-> "BookCard",
                     key |-> results[i].metadata.pid,
                     data |-> results[i]]]
    IN  [type |-> "Card.Group", children |-> cards]

\* Mutant of rowActionClickHandler: builds the path with the eitems' builder.
DocumentsSearch_rowActionClickHandler_eitem(pid) == <<goTo(eitemDetailsFor(pid))>>

\* rowActionClickHandler={pid => goTo(FrontSiteRoutes.documentDetailsFor(pid))}
DocumentsSearch_rowActionClickHandler(pid) == <<goTo(documentDetailsFor(pid))>>

\* Mutant of renderResultsList: the items in reverse order.
DocumentsSearch_renderResultsList_reversed(results) ==
    IF Len(results) # 0
    THEN [type |-> "div",
          children |-> [i \in 1 .. Len(results) |->
                          LET book == results[Len(results) + 1 - i]
                          IN  [type |-> "DocumentItem",
                               key |-> book.metadata.pid,
                               dataTest |-> book.metadata.pid,
                               metadata |-> book.metadata,
                               rowActionClickHandler |-> "rowActionClickHandler"]]]
    ELSE Null

DocumentsSearch_renderResultsList(results) ==
    IF Len(results) # 0
    THEN [type |-> "div",
          children |-> [i \in 1 .. Len(results) |->
                          [type |-> "DocumentItem",
                           key |-> results[i].metadata.pid,
                           dataTest |-> results[i].metadata.pid,
                           metadata |-> results[i].metadata,
                           rowActionClickHandler |-> "rowActionClickHandler"]]]
    ELSE Null

DocumentsSearch_renderEmptyResults(queryString, resetQueryProp) ==
    [type |-> "Segment",
     header |-> "No records found!",
     current |-> <<"Current search \"", queryString, "\"">>,
     buttons |-> <<>>]

\* Mutant of renderError: shows one error for all.
DocumentsSearch_renderError_generic(error) == [type |-> "IlsError", error |-> "e1"]

DocumentsSearch_renderError(error) == [type |-> "IlsError", error |-> error]

DocumentsSearch_renderAggregations(s, srch) ==
    LET accordionPanels ==
            [i \in 1 .. NumAggs |->
               [type |-> "aggregator",
                key |-> AGGREGATIONS[i].field,
                rendered |-> DocumentsSearch_renderAccordionAggregations(
                                 s, AGGREGATIONS[i].title,
                                 ResultsAggregations(srch), "aggregations",
                                 [index |-> i - 1])]]
        cardPanels ==
            [i \in 1 .. NumAggs |->
               [type |-> "aggregator",
                key |-> AGGREGATIONS[i].field,
                rendered |-> [type |-> "Aggregator",
                              title |-> AGGREGATIONS[i].title]]]
    IN  [onlyMobile |-> accordionPanels, onlyComputer |-> cardPanels]

DocumentsSearch_renderHeader(s) ==
    [layoutOptions |-> DocumentsSearch_renderResultsLayoutOptions(s)]

\* The element render() puts between the header and the footer, with what
\* the toolkit makes of its renderElement.
DocumentsSearch_renderResults(s, srch) ==
    IF s.isLayoutGrid
    THEN [type |-> "ResultsGrid",
          rendered |-> IF ResultsShown(srch)
                       THEN DocumentsSearch_renderResultsGrid(srch.results)
                       ELSE Null]
    ELSE [type |-> "ResultsList",
          rendered |-> IF ResultsShown(srch)
                       THEN DocumentsSearch_renderResultsList(srch.results)
                       ELSE Null]

DocumentsSearch_render(s, srch) ==
    [searchBar |-> DocumentsSearch_renderSearchBar(srch.queryString),
     aggregations |-> DocumentsSearch_renderAggregations(s, srch),
     loader |->
        ResultsLoader(srch,
          [type |-> "ResultsLoader",
           emptyResults |->
              IF EmptyResultsShown(srch)
              THEN DocumentsSearch_renderEmptyResults(srch.queryString,
                                                      resetQuery)
              ELSE Null,
           error |-> IF ErrorShown(srch)
                     THEN DocumentsSearch_renderError(srch.error)
                     ELSE Null,
           header |-> DocumentsSearch_renderHeader(s),
           results |-> <<DocumentsSearch_renderResults(s, srch)>>])]

\* ------------------------------------------------ EItemsSearch, rendering

EItemsSearch_renderSearchBar(queryString) ==
    [type |-> "EItemsSearchBar",
     currentQueryString |-> queryString,
     onInputChange |-> "onInputChange",
     executeSearch |-> "executeSearch",
     placeholder |-> "Search for eitems"]

\* viewDetailsClickHandler={row => goTo(BackOfficeRoutes.eitemDetailsFor(row.ID))}
EItemsSearch_viewDetailsClickHandler(row) == <<goTo(eitemDetailsFor(row.ID))>>

EItemsSearch_renderResultsList(results) ==
    [type |-> "div",
     children |-> <<EItemsResultsList(results, "viewDetailsClickHandler")>>]

EItemsSearch_renderEmptyResults(queryString, resetQueryProp) ==
    [type |-> "Segment",
     header |-> "No eitems found!",
     current |-> <<"Current search \"", queryString, "\"">>,
     buttons |-> <<[type |-> "ClearButton",
                    clickHandler |-> <<resetQueryProp>>],
                   [type |-> "NewButton",
                    clickHandler |-> <<openRecordEditor(eitemApiUrl)>>]>>]

EItemsSearch_renderError(error) == [type |-> "IlsError", error |-> error]

EItemsSearch_render(srch) ==
    [searchBar |-> EItemsSearch_renderSearchBar(srch.queryString),
     loader |->
        ResultsLoader(srch,
          [type |-> "ResultsLoader",
           emptyResults |->
              IF EmptyResultsShown(srch)
              THEN EItemsSearch_renderEmptyResults(srch.queryString, resetQuery)
              ELSE Null,
           error |-> IF ErrorShown(srch)
                     THEN EItemsSearch_renderError(srch.error)
                     ELSE Null,
           results |->
              <<[type |-> "ResultsList",
                 rendered |-> IF ResultsShown(srch)
                              THEN EItemsSearch_renderResultsList(srch.results)
                              ELSE Null]>>])]

\* What the mounted page shows: render() of this.state and the search state.
View ==
    IF page = "DocumentsSearch"
    THEN DocumentsSearch_render(state, search)
    ELSE EItemsSearch_render(search)

Loaded == View.loader.type = "ResultsLoader"

\* ------------------------------------------------- the collaborators

\* The argument DocumentItem passes to its rowActionClickHandler.
DocumentItem_rowAction(item) == item.metadata.pid

RECURSIVE SearchClient(_, _)
\* The search client's reaction to the calls a handler issues: resetQuery
\* empties the query string and searches again, executeSearch searches for
\* the string given; the router's and the editor's calls are not its own.
SearchClient(srch, cs) ==
    IF cs = <<>> THEN srch
    ELSE LET c == Head(cs)
             next == IF c.fn = "resetQuery"
                     THEN [srch EXCEPT !.queryString = "", !.loading = TRUE]
                     ELSE IF c.fn = "executeSearch"
                     THEN [srch EXCEPT !.queryString = c.arg[1],
                                       !.loading = TRUE]
                     ELSE srch
         IN  SearchClient(next, Tail(cs))

\* ----------------------------------------------------------- actions

\* this.setState(update): React enqueues the partial state.
SetState(update) ==
    /\ Len(pending) < MaxPending
    /\ pending' = Append(pending, update)

\* firstTwo keeps the first two distinct values of this.state.
Observe(seen, s) ==
    IF s \notin seen /\ Cardinality(seen) < 2 THEN seen \cup {s} ELSE seen

Init ==
    /\ page \in Pages
    /\ state = InitialState(page)
    /\ pending = <<>>
    /\ search \in [queryString : Queries, loading : {TRUE},
                   results : {<<>>}, error : {NoError},
                   aggregations : {FALSE}]
    /\ calls = <<>>
    /\ firstTwo = {state}

\* A click on one of the two layout buttons; a disabled button takes none.
ClickLayoutButton(b) ==
    /\ page = "DocumentsSearch"
    /\ Loaded
    /\ ~View.loader.header.layoutOptions[b].disabled
    /\ SetState(toggleLayout(state))
    /\ calls' = <<>>
    /\ UNCHANGED <<page, state, search, firstTwo>>

\* A click on the title of accordion panel i (idx i - 1).
ClickAccordionTitle(i) ==
    /\ page = "DocumentsSearch"
    /\ View.aggregations.onlyMobile[i].rendered.type = "Accordion"
    /\ SetState(toggleAccordion(state,
                                View.aggregations.onlyMobile[i].rendered.title))
    /\ calls' = <<>>
    /\ UNCHANGED <<page, state, search, firstTwo>>

\* React applies the pending updates in order and renders again.
Flush ==
    /\ pending # <<>>
    /\ state' = ProcessUpdateQueue(state, pending)
    /\ pending' = <<>>
    /\ firstTwo' = Observe(firstTwo, state')
    /\ calls' = <<>>
    /\ UNCHANGED <<page, search>>

\* The row action of the i-th document of the list.
RowActionClick(i) ==
    /\ page = "DocumentsSearch"
    /\ Loaded
    /\ LET el == View.loader.results[1]
       IN  /\ el.type = "ResultsList"
           /\ el.rendered.type = "div"
           /\ i \in DOMAIN el.rendered.children
           /\ calls' = DocumentsSearch_rowActionClickHandler(
                           DocumentItem_rowAction(el.rendered.children[i]))
    /\ search' = SearchClient(search, calls')
    /\ UNCHANGED <<page, state, pending, firstTwo>>

\* View details on the i-th row of the eitems table.
ViewDetailsClick(i) ==
    /\ page = "EItemsSearch"
    /\ Loaded
    /\ LET el == View.loader.results[1]
       IN  /\ el.rendered.type = "div"
           /\ i \in DOMAIN el.rendered.children[1].rows
           /\ calls' = EItemsSearch_viewDetailsClickHandler(
                           el.rendered.children[1].rows[i])
    /\ search' = SearchClient(search, calls')
    /\ UNCHANGED <<page, state, pending, firstTwo>>

\* A click on the b-th button of the empty-results view.
ClickEmptyResultsButton(b) ==
    /\ Loaded
    /\ View.loader.emptyResults.type = "Segment"
    /\ b \in DOMAIN View.loader.emptyResults.buttons
    /\ calls' = View.loader.emptyResults.buttons[b].clickHandler
    /\ search' = SearchClient(search, calls')
    /\ UNCHANGED <<page, state, pending, firstTwo>>

\* The search bar submits the string q through the executeSearch it was given.
SubmitSearchBar(q) ==
    /\ calls' = <<executeSearch(q)>>
    /\ search' = SearchClient(search, calls')
    /\ UNCHANGED <<page, state, pending, firstTwo>>

\* The backend answers with hits; the page renders again.
SearchSucceeds(r, a) ==
    /\ search.loading
    /\ search' = [search EXCEPT !.loading = FALSE, !.results = r,
                                !.error = NoError, !.aggregations = a]
    /\ calls' = <<>>
    /\ UNCHANGED <<page, state, pending, firstTwo>>

\* The request fails; the search client supplies the error.
SearchFails(e) ==
    /\ search.loading
    /\ search' = [search EXCEPT !.loading = FALSE, !.results = <<>>,
                                !.error = e, !.aggregations = FALSE]
    /\ calls' = <<>>
    /\ UNCHANGED <<page, state, pending, firstTwo>>

Next ==
    \/ \E b \in 1 .. 2 : ClickLayoutButton(b)
    \/ \E i \in 1 .. NumAggs : ClickAccordionTitle(i)
    \/ Flush
    \/ \E i \in 1 .. Cardinality(Pids) : RowActionClick(i)
    \/ \E i \in 1 .. Cardinality(Pids) : ViewDetailsClick(i)
    \/ \E b \in 1 .. 2 : ClickEmptyResultsButton(b)
    \/ \E q \in Queries : SubmitSearchBar(q)
    \/ \E r \in ResultSeqs, a \in BOOLEAN : SearchSucceeds(r, a)
    \/ \E e \in Errors : SearchFails(e)

Spec == Init /\ [][Next]_vars

\* ------------------------------------------------- helpers of the claims

Last(q) == q[Len(q)]

\* A handler has just enqueued an update.
Enqueued == Len(pending') = Len(pending) + 1

\* React has just applied the pending updates.
Flushed == pending # <<>> /\ pending' = <<>>

UpdatesOf(q, f) == {k \in DOMAIN q : f \in DOMAIN q[k]}

IsDocuments == page = "DocumentsSearch"

\* ------------------------------------------------------------------ C1

C1_StartsInGrid == IsDocuments => state.isLayoutGrid

C1_RendersOneLayout ==
    IsDocuments =>
        LET r == DocumentsSearch_renderResults(state, search)
        IN  /\ r.type \in {"ResultsGrid", "ResultsList"}
            /\ (r.type = "ResultsGrid") <=> state.isLayoutGrid
            /\ (r.type = "ResultsList") <=> ~state.isLayoutGrid
            /\ ResultsShown(search) =>
                  /\ (r.rendered.type = "Card.Group") <=> state.isLayoutGrid
                  /\ (r.rendered.type = "div") <=> ~state.isLayoutGrid
            /\ Loaded => View.loader.results = <<r>>

C1_ToggleNegates ==
    /\ \A b \in 1 .. 2 :
          ClickLayoutButton(b) =>
              Last(pending').isLayoutGrid = ~state.isLayoutGrid
    /\ (IsDocuments /\ Flushed) =>
          state'.isLayoutGrid =
              IF UpdatesOf(pending, "isLayoutGrid") # {}
              THEN ~state.isLayoutGrid ELSE state.isLayoutGrid

\* C1: DocumentsSearch starts in grid layout; every toggleLayout invocation
\* asks for the negation of the isLayoutGrid it reads, and applying it leaves
\* isLayoutGrid negated; in every reachable state render() puts the grid
\* results component in the results area exactly when isLayoutGrid is true
\* and the list results component exactly when it is false.
C1_LayoutToggle ==
    C1_StartsInGrid /\ []C1_RendersOneLayout /\ [][C1_ToggleNegates]_vars

C1_Witness ==
    /\ IsDocuments /\ ~state.isLayoutGrid /\ Loaded
    /\ View.loader.results[1].type = "ResultsList"
    /\ View.loader.results[1].rendered.type = "div"

\* ------------------------------------------------------------------ C2

\* C2: on both pages the empty-results view shows the current query string
\* and offers a reset action whose activation invokes resetQuery.
C2_EmptyResultsOffersReset ==
    (Loaded /\ EmptyResultsShown(search)) =>
        LET v == View.loader.emptyResults
        IN  /\ v.type = "Segment"
            /\ \E k \in DOMAIN v.current : v.current[k] = search.queryString
            /\ \E b \in DOMAIN v.buttons :
                  v.buttons[b].clickHandler = <<resetQuery>>

\* ------------------------------------------------------------------ C3

C3_ErrorForwarded ==
    Loaded =>
        IF ErrorShown(search)
        THEN View.loader.error = [type |-> "IlsError", error |-> search.error]
        ELSE View.loader.error = Null

C3_DisplayOnly ==
    \A e \in Errors :
        SearchFails(e) =>
            /\ state' = state /\ pending' = pending
            /\ calls' = <<>>
            /\ search' = [search EXCEPT !.loading = FALSE, !.results = <<>>,
                                        !.error = e, !.aggregations = FALSE]

\* C3: on both pages the error the search client supplies reaches the error
\* component unchanged, and its arrival changes no component state and issues
\* no executeSearch, resetQuery or goTo.
C3_ErrorIsDisplayOnly == []C3_ErrorForwarded /\ [][C3_DisplayOnly]_vars

C3_Witness ==
    /\ IsDocuments /\ ErrorShown(search) /\ search.error = "e2"
    /\ View.loader.error.type = "IlsError"

\* ------------------------------------------------------------------ C4

HasGoTo(cs) == \E k \in DOMAIN cs : cs[k].fn = "goTo"

C4_GoTo ==
    /\ \A i \in 1 .. Cardinality(Pids) :
          RowActionClick(i) =>
              calls' = <<goTo(documentDetailsFor(search.results[i].metadata.pid))>>
    /\ \A i \in 1 .. Cardinality(Pids) :
          ViewDetailsClick(i) =>
              calls' = <<goTo(eitemDetailsFor(search.results[i].metadata.pid))>>
    /\ HasGoTo(calls') =>
          \/ \E i \in 1 .. Cardinality(Pids) : RowActionClick(i)
          \/ \E i \in 1 .. Cardinality(Pids) : ViewDetailsClick(i)
    /\ (Enqueued \/ Flushed \/ search'.results # search.results) =>
          ~HasGoTo(calls')

\* C4: goTo is called only by a row click, exactly once and with the details
\* path of the clicked record; rendering results and the two toggles never
\* call it.
C4_GoToOnlyOnRowClick == [][C4_GoTo]_vars

C4_Witness ==
    /\ IsDocuments
    /\ Len(search.results) = 2
    /\ calls = <<goTo(documentDetailsFor(search.results[2].metadata.pid))>>

\* ------------------------------------------------------------------ C5

\* C5 as stated: the component's own state takes at most two distinct
\* values, so it is always one of the first two it took.
C5_AtMostTwoValues == state \in firstTwo

\* C5 as amended: EItemsSearch owns no state; the state of DocumentsSearch is
\* the boolean isLayoutGrid together with activeIndex, which is -1 or the
\* index of a configured aggregation: at most 2 * (NumAggs + 1) values.
C5_StateValues ==
    IF IsDocuments
    THEN state \in [activeIndex : {-1} \cup AggIndices, isLayoutGrid : BOOLEAN]
    ELSE state = NoState /\ pending = <<>>

C5_Witness ==
    /\ IsDocuments /\ Cardinality(firstTwo) = 2 /\ state \notin firstTwo
    /\ state.activeIndex = -1 /\ ~state.isLayoutGrid

\* ------------------------------------------------------------------ C6

C6_Frame ==
    /\ \A b \in 1 .. 2 :
          ClickLayoutButton(b) =>
              /\ DOMAIN Last(pending') = {"isLayoutGrid"}
              /\ state' = state /\ search' = search /\ calls' = <<>>
    /\ \A i \in 1 .. NumAggs :
          ClickAccordionTitle(i) =>
              /\ DOMAIN Last(pending') = {"activeIndex"}
              /\ state' = state /\ search' = search /\ calls' = <<>>
    /\ (IsDocuments /\ Flushed) =>
          /\ search' = search /\ calls' = <<>>
          /\ UpdatesOf(pending, "isLayoutGrid") = {} =>
                state'.isLayoutGrid = state.isLayoutGrid
          /\ UpdatesOf(pending, "activeIndex") = {} =>
                state'.activeIndex = state.activeIndex

\* C6: toggleLayout changes isLayoutGrid only and toggleAccordion changes
\* activeIndex only; neither changes the search client's state nor issues
\* executeSearch, resetQuery or goTo.
C6_TogglesTouchOwnField == [][C6_Frame]_vars

C6_Witness ==
    /\ IsDocuments /\ pending = <<>>
    /\ ~state.isLayoutGrid /\ state.activeIndex = 1
    /\ ~search.loading /\ search.results # <<>>

\* ------------------------------------------------------------------ C7

PanelOpen(i) ==
    LET el == View.aggregations.onlyMobile[i].rendered
    IN  el.type = "Accordion" /\ el.content.active

C7_OnePanel ==
    IsDocuments =>
        /\ state.activeIndex \in {-1} \cup AggIndices
        /\ \A i \in 1 .. NumAggs :
              LET el == View.aggregations.onlyMobile[i].rendered
              IN  el.type = "Accordion" =>
                      /\ el.content.active <=> (state.activeIndex = i - 1)
                      /\ el.title.active <=> (state.activeIndex = i - 1)
                      /\ el.title.index = i - 1
        /\ Cardinality({i \in 1 .. NumAggs : PanelOpen(i)}) <= 1

C7_Toggle ==
    /\ \A i \in 1 .. NumAggs :
          ClickAccordionTitle(i) =>
              Last(pending').activeIndex =
                  IF state.activeIndex = i - 1 THEN -1 ELSE i - 1
    /\ (IsDocuments /\ Flushed /\ UpdatesOf(pending, "activeIndex") # {}) =>
          LET k == CHOOSE k \in UpdatesOf(pending, "activeIndex") :
                      \A j \in UpdatesOf(pending, "activeIndex") : j <= k
          IN  state'.activeIndex = pending[k].activeIndex

\* C7: toggleAccordion on the title with index i asks for -1 when activeIndex
\* is i and for i otherwise; activeIndex is always -1 or the index of a
\* configured aggregation, panel i is open exactly when activeIndex = i, and
\* at most one panel is open.
C7_Accordion == []C7_OnePanel /\ [][C7_Toggle]_vars

C7_Witness ==
    /\ IsDocuments /\ state.activeIndex = 1 /\ PanelOpen(2) /\ ~PanelOpen(1)

\* ------------------------------------------------------------------ C8

C8_OneButtonEnabled ==
    IsDocuments =>
        LET bs == DocumentsSearch_renderResultsLayoutOptions(state)
            named == [b \in 1 .. 2 |-> bs[b].icon = "grid layout"]
        IN  /\ bs[1].icon = "grid layout" /\ bs[2].icon = "list layout"
            /\ bs[1].disabled <=> state.isLayoutGrid
            /\ bs[2].disabled <=> ~state.isLayoutGrid
            /\ Cardinality({b \in 1 .. 2 : ~bs[b].disabled}) = 1
            /\ Loaded => View.loader.header.layoutOptions = bs
            /\ \A k \in UpdatesOf(pending, "isLayoutGrid") :
                  \A b \in 1 .. 2 :
                      ~bs[b].disabled => pending[k].isLayoutGrid = named[b]

C8_ClickGivesNamedLayout ==
    \A b \in 1 .. 2 :
        ClickLayoutButton(b) =>
            MergeState(state, Last(pending')).isLayoutGrid =
                (View.loader.header.layoutOptions[b].icon = "grid layout")

\* C8: exactly one of the two layout buttons is enabled, the grid button is
\* disabled exactly in grid layout and the list button exactly in list
\* layout, and a click on the enabled button, applied to the rendered state,
\* gives the layout the button names.
C8_LayoutButtons == []C8_OneButtonEnabled /\ [][C8_ClickGivesNamedLayout]_vars

C8_Witness ==
    /\ IsDocuments /\ Loaded /\ ~state.isLayoutGrid
    /\ ~View.loader.header.layoutOptions[1].disabled
    /\ pending # <<>> /\ Last(pending) = [isLayoutGrid |-> TRUE]

\* ------------------------------------------------------------------ C9

\* C9: no toggle is lost: when React applies the pending updates,
\* isLayoutGrid has flipped once for every toggleLayout invocation among
\* them, so it keeps its value exactly when their number is even.
C9_NoToggleLost ==
    [][(IsDocuments /\ Flushed) =>
          (state'.isLayoutGrid = state.isLayoutGrid) <=>
              (Cardinality(UpdatesOf(pending, "isLayoutGrid")) % 2 = 0)]_vars

\* ----------------------------------------------------------------- C10

Pid(results, i) == results[i].metadata.pid

\* C10: for every results sequence the grid and the list renderer give one
\* item per hit, in the order of the hits and keyed by the hit's pid, so both
\* layouts show the same records in the same order; for no hits the list
\* renderer gives nothing.
C10_OneItemPerHit ==
    IsDocuments =>
        LET results == search.results
            g == DocumentsSearch_renderResultsGrid(results)
            l == DocumentsSearch_renderResultsList(results)
        IN  /\ g.type = "Card.Group"
            /\ DOMAIN g.children = DOMAIN results
            /\ \A i \in DOMAIN results :
                  /\ g.children[i].key = Pid(results, i)
                  /\ g.children[i].data = results[i]
            /\ (results = <<>>) <=> (l = Null)
            /\ results # <<>> =>
                  /\ DOMAIN l.children = DOMAIN results
                  /\ \A i \in DOMAIN results :
                        /\ l.children[i].key = Pid(results, i)
                        /\ l.children[i].metadata = results[i].metadata
                        /\ l.children[i].key = g.children[i].key
            /\ (Loaded /\ ResultsShown(search)) =>
                  LET shown == View.loader.results[1].rendered.children
                  IN  [i \in DOMAIN shown |-> shown[i].key] =
                         [i \in DOMAIN results |-> Pid(results, i)]

C10_Witness ==
    /\ IsDocuments /\ Loaded /\ ~state.isLayoutGrid
    /\ Len(search.results) = 2 /\ Pid(search.results, 1) = "p2"
    /\ View.loader.results[1].rendered.children[1].key = "p2"

====
